---- MODULE Spec2Model ----
(***************************************************************************)
(* Alignment and review-state engine of acolyte.                           *)
(*                                                                         *)
(*   src/engine.py  TranslationManager: merge of original / translation /  *)
(*                  status, cursor, in-place edits, save                   *)
(*   src/tui.py     Acolyte: the handlers that drive the manager           *)
(*   src/logic.py   the draft-document commands                            *)
(*                                                                         *)
(* A run is one of three uses of the code (variable mode): the manager     *)
(* called directly ("engine"), the manager driven by the TUI handlers      *)
(* ("tui"), or the draft commands on one draft document ("draft").         *)
(*                                                                         *)
(* A subtitle file is the sequence of entries srt.parse yields from it.    *)
(* A text is a sequence of characters, so that str.strip is computed.      *)
(***************************************************************************)
EXTENDS Integers, Sequences, FiniteSets, TLC

\* ------------------------------------------------------------------ bounds
MaxLen == 2
MaxIdx == 2
MaxEdits == 2

\* ------------------------------------------------------------------ texts
SP == " "

EmptyText == <<>>

OrigText == <<"o">>

TransText == <<"t">>

\* the texts an edit can bring: empty, whitespace-only, non-blank
EditTexts == {EmptyText, <<SP>>, <<"x">>}

RECURSIVE LStrip(_)
LStrip(t) == IF t # <<>> /\ Head(t) = SP THEN LStrip(Tail(t)) ELSE t

RECURSIVE RStrip(_)
RStrip(t) ==
    IF t # <<>> /\ t[Len(t)] = SP THEN RStrip(SubSeq(t, 1, Len(t) - 1)) ELSE t

\* str.strip()
Strip(t) == RStrip(LStrip(t))

\* ---------------------------------------------------------------- entries
Indices == 1..MaxIdx

\* srt.Subtitle(index, start, end, content)
Subtitle(i, s, e, c) == [index |-> i, start |-> s, end |-> e, content |-> c]

\* an absent file, and a file holding a value; form tells how the file
\* reads: "ok", "garbled" (unreadable, or text the parser rejects),
\* "badkey" and "badvalue" (a status record with such an entry)
NoFile == [exists |-> FALSE, form |-> "ok", content |-> <<>>]

File(c) == [exists |-> TRUE, form |-> "ok", content |-> c]

\* a file open() or srt.parse or json.load raises on
Garbled == [exists |-> TRUE, form |-> "garbled", content |-> <<>>]

\* a status record with the entries m and one more entry whose key is not
\* an integer
BadKey(m) == [exists |-> TRUE, form |-> "badkey", content |-> m]

\* a status record with the entries m and one more entry, under an index
\* beyond those of the subtitle files, whose value is not a boolean
BadValue(m) == [exists |-> TRUE, form |-> "badvalue", content |-> m]

\* the empty status record {}
EmptyMap == [i \in {} |-> FALSE]

\* Optional values: None is <<>>, a value v is <<v>>
None == <<>>

Some(v) == <<v>>

\* --------------------------------------------------------- srt.compose
\* Subtitle.__lt__: ordering by (start, end, index)
SubLess(a, b) ==
    \/ a.start < b.start
    \/ a.start = b.start /\ a.end < b.end
    \/ a.start = b.start /\ a.end = b.end /\ a.index < b.index

\* insertion of x after every element that is not greater (stable)
RECURSIVE InsertSorted(_, _)
InsertSorted(x, s) ==
    IF s = <<>> THEN <<x>>
    ELSE IF SubLess(x, Head(s)) THEN <<x>> \o s
    ELSE <<Head(s)>> \o InsertSorted(x, Tail(s))

\* sorted(subtitles)
RECURSIVE Sorted(_)
Sorted(s) ==
    IF s = <<>> THEN <<>>
    ELSE InsertSorted(s[Len(s)], Sorted(SubSeq(s, 1, Len(s) - 1)))

\* srt._should_skip_sub: no content, or start after end
ShouldSkip(sub) == Strip(sub.content) = <<>> \/ sub.start > sub.end

\* srt.sort_and_reindex body: the kept subtitles are numbered from 1
RECURSIVE Reindex(_, _)
Reindex(s, n) ==
    IF s = <<>> THEN <<>>
    ELSE IF ShouldSkip(Head(s)) THEN Reindex(Tail(s), n)
    ELSE <<[Head(s) EXCEPT !.index = n]>> \o Reindex(Tail(s), n + 1)

\* srt.compose(subs) with its defaults reindex=True, start_index=1,
\* followed by srt.parse of the text: the entries a reader gets back
Compose(subs) == Reindex(Sorted(subs), 1)

\* ------------------------------------------------- TranslationManager
\* translated_map = {sub.index: sub for sub in translations}: last wins
TranslatedMap(T) ==
    [i \in {T[k].index : k \in 1..Len(T)} |->
        T[CHOOSE k \in 1..Len(T) :
            /\ T[k].index = i
            /\ \A j \in (k + 1)..Len(T) : T[j].index # i]]

\* SubtitlePair(...)
SubtitlePair(o, t, a) ==
    [index |-> o.index, start |-> o.start, end |-> o.end,
     original_sub |-> o, translated_sub |-> t, is_approved |-> a]

\* the merge loop with status_map.get(index, True)
MergeOne_approved(o, tmap, smap) ==
    LET trans_sub == IF o.index \in DOMAIN tmap THEN tmap[o.index]
                     ELSE Subtitle(o.index, o.start, o.end, EmptyText)
        approved == IF o.index \in DOMAIN smap THEN smap[o.index] ELSE TRUE
    IN SubtitlePair(o, trans_sub, approved)

\* the merge loop synthesizing the missing translation from the original text
MergeOne_copy(o, tmap, smap) ==
    LET trans_sub == IF o.index \in DOMAIN tmap THEN tmap[o.index]
                     ELSE Subtitle(o.index, o.start, o.end, o.content)
        approved == IF o.index \in DOMAIN smap THEN smap[o.index] ELSE FALSE
    IN SubtitlePair(o, trans_sub, approved)

\* one turn of the merge loop of _load_data
MergeOne(o, tmap, smap) ==
    LET trans_sub == IF o.index \in DOMAIN tmap THEN tmap[o.index]
                     ELSE Subtitle(o.index, o.start, o.end, EmptyText)
        approved == IF o.index \in DOMAIN smap THEN smap[o.index] ELSE FALSE
    IN SubtitlePair(o, trans_sub, approved)

\* the merge walking the originals in sorted order
LoadData_sorted(of, tf, sf) ==
    LET originals == Sorted(of.content)
        status_map == IF sf.exists THEN sf.content ELSE EmptyMap
        translated_map == IF tf.exists THEN TranslatedMap(tf.content)
                          ELSE TranslatedMap(<<>>)
    IN [k \in 1..Len(originals) |->
            MergeOne(originals[k], translated_map, status_map)]

\* _load_data: originals is the original file, the translation and status
\* files are read when they exist
LoadData(of, tf, sf) ==
    LET originals == of.content
        status_map == IF sf.exists THEN sf.content ELSE EmptyMap
        translated_map == IF tf.exists THEN TranslatedMap(tf.content)
                          ELSE TranslatedMap(<<>>)
    IN [k \in 1..Len(originals) |->
            MergeOne(originals[k], translated_map, status_map)]

\* _load_data raises: open() or srt.parse on the original file, json.load
\* or int(k) on a status file that exists, open() or srt.parse on a
\* translation file that exists
LoadRaises(of, tf, sf) ==
    \/ ~of.exists \/ of.form # "ok"
    \/ sf.exists /\ sf.form \in {"garbled", "badkey"}
    \/ tf.exists /\ tf.form # "ok"

\* status_map = {pair.index: pair.is_approved for pair in self.pairs}
StatusMapOf(ps) ==
    [i \in {ps[k].index : k \in 1..Len(ps)} |->
        ps[CHOOSE k \in 1..Len(ps) :
            /\ ps[k].index = i
            /\ \A j \in (k + 1)..Len(ps) : ps[j].index # i].is_approved]

\* get_view_window taking the one-based position for the previous pair
GetViewWindow_prev(ps, ci) ==
    LET prev_pair == IF ci > 0 THEN Some(ps[ci + 1]) ELSE None
        curr_pair == ps[ci + 1]
        next_pair == IF ci < Len(ps) - 1 THEN Some(ps[ci + 2]) ELSE None
    IN <<prev_pair, Some(curr_pair), next_pair>>

\* get_view_window on a non-empty pair sequence
GetViewWindow(ps, ci) ==
    LET prev_pair == IF ci > 0 THEN Some(ps[ci]) ELSE None
        curr_pair == ps[ci + 1]
        next_pair == IF ci < Len(ps) - 1 THEN Some(ps[ci + 2]) ELSE None
    IN <<prev_pair, Some(curr_pair), next_pair>>

\* previous_idx
PreviousIdx(ci) == ci - (IF ci > 0 THEN 1 ELSE 0)

\* next_idx wrapping to the first pair at the end
NextIdx_wrap(ps, ci) ==
    LET last_subtitle_index == Len(ps) - 1
    IN IF ci < last_subtitle_index THEN ci + 1 ELSE 0

\* next_idx
NextIdx(ps, ci) ==
    LET last_subtitle_index == Len(ps) - 1
    IN ci + (IF ci < last_subtitle_index THEN 1 ELSE 0)

\* update_current_original writing the text to both subtitles of the pair
SetOriginal_both(ps, ci, t) ==
    [ps EXCEPT ![ci + 1].original_sub.content = t,
               ![ci + 1].translated_sub.content = t]

\* update_current_original
SetOriginal(ps, ci, t) ==
    [ps EXCEPT ![ci + 1].original_sub.content = t]

\* validate_current_translation
Validate(ps, ci) == [ps EXCEPT ![ci + 1].is_approved = TRUE]

\* update_current_translation
SetTranslation(ps, ci, t) ==
    Validate([ps EXCEPT ![ci + 1].translated_sub.content = t], ci)

\* ------------------------------------------------------------ tui.py
\* the two editable text areas
CurrOrig == "curr_orig_text"

CurrTrans == "curr_trans_text"

\* SubtitleBlock.set_content(subtitle): the text area is reloaded only when
\* its text differs from the content
SetContentLoads(text, content) == text # content

\* update_view on the current row: the texts of the two editable areas
\* after it, and the areas whose load_text posted a Changed message
ViewTexts(ps, ci) ==
    [o |-> ps[ci + 1].original_sub.content, t |-> ps[ci + 1].translated_sub.content]

ViewPosted(ps, ci, otext, ttext) ==
    (IF SetContentLoads(otext, ViewTexts(ps, ci).o) THEN {CurrOrig} ELSE {})
        \cup (IF SetContentLoads(ttext, ViewTexts(ps, ci).t) THEN {CurrTrans} ELSE {})

\* on_text_area_changed for curr_trans_text: the manager's update, then the
\* status by the stripped text
ChangedTranslation(ps, ci, text) ==
    [SetTranslation(ps, ci, text) EXCEPT ![ci + 1].is_approved = (Strip(text) # <<>>)]

\* action_toggle_status approving the pair instead of inverting
ToggleStatus_approve(ps, ci) == [ps EXCEPT ![ci + 1].is_approved = TRUE]

\* action_toggle_status: curr_pair.is_approved = not curr_pair.is_approved
ToggleStatus(ps, ci) ==
    [ps EXCEPT ![ci + 1].is_approved = ~ps[ci + 1].is_approved]

\* ----------------------------------------------------------- logic.py
Unverified == "unverified"

Verified == "verified"

Unknown == "unknown"

\* the metadata and entries of a draft document
Metadata(ol, tl, c, u, a) ==
    [original_lang |-> ol, target_lang |-> tl, created_at |-> c,
     updated_at |-> u, audio_file |-> a]

DraftEntry(sub) ==
    [index |-> sub.index, start_seconds |-> sub.start, end_seconds |-> sub.end,
     original |-> sub.content, translation |-> EmptyText, status |-> Unverified]

EmptyDoc == [metadata |-> Metadata(Unknown, Unknown, 0, 0, None), subtitles |-> <<>>]

NoDraft == [exists |-> FALSE, form |-> "ok", content |-> EmptyDoc]

\* _save_draft_data stamping created_at as well
SaveDraftData_created(data, now) ==
    File([data EXCEPT !.metadata.updated_at = now, !.metadata.created_at = now])

\* _save_draft_data: stamps updated_at and rewrites the document
SaveDraftData(data, now) == File([data EXCEPT !.metadata.updated_at = now])

\* _create_draft_from_srt: the document before it is saved
CreateDraft(subtitles_list, now) ==
    [metadata |-> Metadata(Unknown, Unknown, now, now, None),
     subtitles |-> [k \in 1..Len(subtitles_list) |-> DraftEntry(subtitles_list[k])]]

\* _find_entry_by_index falling back to the last entry when none matches
FindEntryByIndex_last(subtitles_list, index) ==
    IF \E k \in 1..Len(subtitles_list) : subtitles_list[k].index = index
    THEN CHOOSE k \in 1..Len(subtitles_list) :
            /\ subtitles_list[k].index = index
            /\ \A j \in 1..(k - 1) : subtitles_list[j].index # index
    ELSE Len(subtitles_list)

\* _find_entry_by_index: the position of the first entry of that index, 0 for None
FindEntryByIndex(subtitles_list, index) ==
    IF \E k \in 1..Len(subtitles_list) : subtitles_list[k].index = index
    THEN CHOOSE k \in 1..Len(subtitles_list) :
            /\ subtitles_list[k].index = index
            /\ \A j \in 1..(k - 1) : subtitles_list[j].index # index
    ELSE 0

\* translate: entry["translation"] = text; entry["status"] = "verified"
TranslateEntry(data, k, text) ==
    [data EXCEPT !.subtitles[k].translation = text, !.subtitles[k].status = Verified]

\* fix leaving the status of the entry as it is
FixEntry_keep(data, k, text) ==
    [data EXCEPT !.subtitles[k].original = text]

\* fix: entry["original"] = text; entry["status"] = "unverified"
FixEntry(data, k, text) ==
    [data EXCEPT !.subtitles[k].original = text, !.subtitles[k].status = Unverified]

\* status_toggle: "verified" if entry["status"] == "unverified" else "unverified"
ToggleEntry(data, k) ==
    [data EXCEPT !.subtitles[k].status =
        IF data.subtitles[k].status = Unverified THEN Verified ELSE Unverified]

\* the language codes config is given for the original and for the target,
\* and the audio file it is given
OrigCodes == {"en"}

TargetCodes == {"en", "pt"}

AudioPath == "audio.mp3"

\* the values of an option of config: not given, or one of the values
Option(values) == {None} \cup {Some(v) : v \in values}

\* config: the metadata keys of the options given are assigned
ConfigData(data, lang_orig, lang_target, audio_file) ==
    [data EXCEPT
        !.metadata.original_lang = IF lang_orig # None THEN lang_orig[1] ELSE @,
        !.metadata.target_lang = IF lang_target # None THEN lang_target[1] ELSE @,
        !.metadata.audio_file = IF audio_file # None THEN audio_file ELSE @]

\* draft_file.name, as the stem and the suffixes it is made of
DraftName == <<"movie", ".srt", ".draft.json">>

\* str.removesuffix
RemoveSuffix(name, suffix) ==
    IF /\ Len(name) >= Len(suffix)
       /\ SubSeq(name, Len(name) - Len(suffix) + 1, Len(name)) = suffix
    THEN SubSeq(name, 1, Len(name) - Len(suffix))
    ELSE name

\* Path.stem: the name without its last suffix
Stem(name) == IF Len(name) > 1 THEN SubSeq(name, 1, Len(name) - 1) ELSE name

\* the text _build_srt_list puts in place of an empty one
Dots == <<".", ".", ".">>

\* _build_srt_list(subtitles_list, content_key)
BuildSrtList(subtitles_list, content_key) ==
    [k \in 1..Len(subtitles_list) |->
        Subtitle(subtitles_list[k].index,
                 subtitles_list[k].start_seconds,
                 subtitles_list[k].end_seconds,
                 IF subtitles_list[k][content_key] = EmptyText THEN Dots
                 ELSE subtitles_list[k][content_key])]

\* export: the text of the output of one content key
ExportContent(data, content_key) ==
    Compose(BuildSrtList(data.subtitles, content_key))

\* export: "unknown" is replaced by the literal segment
ExportLang(code, literal) == IF code = Unknown THEN literal ELSE code

\* export: draft_file.with_name(f"{base_name}_{lang}.srt")
ExportPath(name, lang) ==
    [base_name |-> Stem(RemoveSuffix(name, <<".draft.json">>)), lang |-> lang]

\* a file system after the file at path is written
Write(files, path, content) == (path :> content) @@ files

\* -------------------------------------------------------------- inputs
\* the timing of the original entry of index i
OrigEntry(i, c) == Subtitle(i, i, i + 1, c)

\* the indices of translation entries: one more than the originals have
TransIndices == 1..(MaxIdx + 1)

\* a translation entry of index i, with the original's timing or its own
TransEntries ==
    {Subtitle(i, i, i + 1, TransText) : i \in TransIndices}
        \cup {Subtitle(i, 0, i + 2, TransText) : i \in TransIndices}

SeqsUpTo(S, n) == UNION {[1..k -> S] : k \in 0..n}

Distinct(f) == \A j, k \in DOMAIN f : j # k => f[j] # f[k]

\* subtitle files of the original text, entries in any order
SrtFiles ==
    {[k \in DOMAIN f |-> OrigEntry(f[k], OrigText)] : f \in SeqsUpTo(Indices, MaxLen)}

\* original files: the index is unique within the file
OrigFiles ==
    {O \in SrtFiles : Distinct([k \in DOMAIN O |-> O[k].index])}

\* translation files: partial, with orphans and duplicate indices, or absent
TransFiles == {NoFile} \cup {File(T) : T \in SeqsUpTo(TransEntries, MaxLen)}

\* status files: a record over any subset of the indices, or absent
StatusFiles ==
    {NoFile} \cup {File(m) : m \in UNION {[D -> BOOLEAN] : D \in SUBSET Indices}}

\* status files json.load or the key conversion rejects, and one with a
\* value that is not a boolean
MalformedStatusFiles ==
    {Garbled, BadKey([i \in Indices |-> TRUE]), BadValue([i \in Indices |-> TRUE])}

\* the files an editing session starts from: an original file numbered
\* 1..n, the first entry translated or none, the first entry recorded as
\* verified or none
SessionOrigFiles == {O \in OrigFiles : \A k \in DOMAIN O : O[k].index = k}

SessionTransFiles == {File(<<>>), File(<<OrigEntry(1, TransText)>>)}

SessionStatusFiles == {File(EmptyMap), File([i \in {1} |-> TRUE])}

\* the srt files a draft is created from: indices in non-decreasing order
DraftSrtFiles ==
    {O \in SrtFiles : \A j, k \in DOMAIN O : j < k => O[j].index <= O[k].index}

\* --------------------------------------------------------------- state
VARIABLES
    mode,           \* "engine" | "tui" | "draft"
    faulty,         \* whether the directory of the three files is one where
                    \* a write may raise (full disk, no permission)
    origFile,       \* the file at original_path (draft: the srt file)
    transFile,      \* the file at translated_path
    statusFile,     \* the file at status_path
    pairs,          \* TranslationManager.pairs
    current_index,  \* TranslationManager.current_index (zero-based)
    window,         \* what get_view_window returned, if it was the last call
    otext,          \* text of the text area curr_orig_text
    ttext,          \* text of the text area curr_trans_text
    pending,        \* text areas with a Changed message not yet handled
    draft,          \* the draft document file
    clock,          \* the clock the draft commands read
    lastOp,         \* the last mutating operation: name, index (the index
                    \* argument, or the cursor it acted at), text argument,
                    \* the target's status before it, whether it failed
    edits,          \* number of mutating operations so far
    run,            \* next_idx calls since construction, if nothing else
                    \* was called; otherwise -1
    pairs0,         \* pairs of the engine that hist is counted from
    hist,           \* "loaded" | "saved" | "reloaded" | "edited"
    saves,          \* save() calls in a row up to now (at most 2 counted)
    replaced,       \* the status file the last save() overwrote, while
                    \* save() is the last call; otherwise NoFile
    failed,         \* the artifact whose write raised in the last save(),
                    \* while save() is the last call; otherwise "none"
    outFiles,       \* the files export wrote, by name
    clips,          \* the clip files of the cache directory, by path
    clipOf,         \* for each clip file, the draft file and the index of
                    \* the play that ran ffmpeg to write it
    played          \* what the last play printed and whether ffmpeg ran

vars == <<mode, faulty, origFile, transFile, statusFile, pairs,
          current_index,
          window, otext, ttext, pending, draft, clock, lastOp, edits, run,
          pairs0, hist, saves, replaced, failed, outFiles, clips, clipOf,
          played>>

Files == <<origFile, transFile, statusFile>>

Widgets == <<otext, ttext, pending>>

Drafts == <<draft, clock>>

Media == <<outFiles, clips, clipOf, played>>

\* a call that is not save()
NoSave == saves' = 0 /\ replaced' = NoFile /\ failed' = "none"

\* no file exported, no clip cached, nothing played
NoFiles == [n \in {} |-> <<>>]

NoPlay == [clip_path |-> None, cache |-> "none", ran |-> FALSE]

NoMedia == outFiles = NoFiles /\ clips = {} /\ clipOf = NoFiles /\ played = NoPlay

NoWindow == <<None, None, None>>

Op(name, index, text, before, raised) ==
    [op |-> name, index |-> index, text |-> text, before |-> before,
     raised |-> raised]

\* is_approved of the pair under the cursor (FALSE when there is none)
CurStatus == IF current_index < Len(pairs) THEN pairs[current_index + 1].is_approved
             ELSE FALSE

\* the cap of run
RunCap == MaxLen + 5

\* ------------------------------------------------------ engine.py, direct
\* TranslationManager.__init__ on the three files
Constructed ==
    /\ mode = "engine"
    /\ pairs = IF LoadRaises(origFile, transFile, statusFile) THEN <<>>
               ELSE LoadData(origFile, transFile, statusFile)
    /\ current_index = 0
    /\ window = NoWindow
    /\ otext = EmptyText /\ ttext = EmptyText /\ pending = {}
    /\ draft = NoDraft /\ clock = 0
    /\ lastOp = Op("__init__", 0, EmptyText, FALSE,
                   LoadRaises(origFile, transFile, statusFile))
    /\ edits = 0
    /\ run = 0
    /\ pairs0 = pairs
    /\ hist = "loaded"
    /\ saves = 0 /\ replaced = NoFile /\ failed = "none"
    /\ NoMedia

InitEngine ==
    /\ origFile \in {File(O) : O \in SessionOrigFiles}
    /\ transFile \in SessionTransFiles
    /\ statusFile \in SessionStatusFiles
    /\ faulty = TRUE
    /\ Constructed

\* there is a manager: the last construction did not raise
Engine == mode = "engine" /\ ~(lastOp.op = "__init__" /\ lastOp.raised)

\* a fresh TranslationManager on the same three paths
Construct ==
    /\ mode = "engine" /\ edits < MaxEdits
    /\ pairs' = IF LoadRaises(origFile, transFile, statusFile) THEN <<>>
                ELSE LoadData(origFile, transFile, statusFile)
    /\ current_index' = 0
    /\ window' = NoWindow
    /\ lastOp' = Op("__init__", 0, EmptyText, FALSE,
                    LoadRaises(origFile, transFile, statusFile))
    /\ edits' = edits + 1
    /\ run' = 0
    /\ IF hist = "saved"
       THEN hist' = "reloaded" /\ pairs0' = pairs0
       ELSE hist' = "loaded" /\ pairs0' = pairs'
    /\ NoSave
    /\ UNCHANGED <<mode, faulty, Files, Widgets, Drafts, Media>>

\* get_view_window(): pairs[current_index] raises on an empty sequence
get_view_window ==
    /\ Engine
    /\ window' = IF Len(pairs) = 0 THEN NoWindow
                 ELSE GetViewWindow(pairs, current_index)
    /\ run' = -1
    /\ NoSave
    /\ UNCHANGED <<mode, faulty, Files, Widgets, Drafts, Media, pairs, current_index,
                   lastOp, edits, pairs0, hist>>

\* next_idx()
next_idx ==
    /\ Engine
    /\ current_index' = NextIdx(pairs, current_index)
    /\ run' = IF run < 0 THEN -1 ELSE IF run < RunCap THEN run + 1 ELSE RunCap
    /\ window' = NoWindow
    /\ NoSave
    /\ UNCHANGED <<mode, faulty, Files, Widgets, Drafts, Media, pairs, lastOp, edits,
                   pairs0, hist>>

\* previous_idx()
previous_idx ==
    /\ Engine
    /\ current_index' = PreviousIdx(current_index)
    /\ run' = -1
    /\ window' = NoWindow
    /\ NoSave
    /\ UNCHANGED <<mode, faulty, Files, Widgets, Drafts, Media, pairs, lastOp, edits,
                   pairs0, hist>>

\* an operation on pairs[current_index] of an empty sequence: IndexError
Raises(name, t) ==
    /\ Len(pairs) = 0
    /\ lastOp' = Op(name, current_index, t, FALSE, TRUE)
    /\ UNCHANGED <<pairs, hist>>

\* what an edit of the manager leaves alone
EditFrame ==
    /\ edits' = edits + 1
    /\ window' = NoWindow
    /\ run' = -1
    /\ NoSave
    /\ UNCHANGED <<mode, faulty, Files, Widgets, Drafts, Media, current_index, pairs0>>

\* update_current_original(new_text)
update_current_original(t) ==
    /\ Engine /\ edits < MaxEdits
    /\ \/ Raises("update_current_original", t)
       \/ /\ Len(pairs) > 0
          /\ pairs' = SetOriginal(pairs, current_index, t)
          /\ lastOp' = Op("update_current_original", current_index, t, CurStatus, FALSE)
          /\ hist' = "edited"
    /\ EditFrame

\* update_current_translation(new_text)
update_current_translation(t) ==
    /\ Engine /\ edits < MaxEdits
    /\ \/ Raises("update_current_translation", t)
       \/ /\ Len(pairs) > 0
          /\ pairs' = SetTranslation(pairs, current_index, t)
          /\ lastOp' = Op("update_current_translation", current_index, t, CurStatus, FALSE)
          /\ hist' = "edited"
    /\ EditFrame

\* validate_current_translation()
validate_current_translation ==
    /\ Engine /\ edits < MaxEdits
    /\ \/ Raises("validate_current_translation", EmptyText)
       \/ /\ Len(pairs) > 0
          /\ pairs' = Validate(pairs, current_index)
          /\ lastOp' = Op("validate_current_translation", current_index, EmptyText,
                          CurStatus, FALSE)
          /\ hist' = "edited"
    /\ EditFrame

\* save() updating the stored status record instead of replacing it
SavedStatus_update(ps) ==
    File(StatusMapOf(ps) @@ (IF statusFile.exists THEN statusFile.content ELSE EmptyMap))

\* the three artifacts save() writes
SavedStatus(ps) == File(StatusMapOf(ps))

SavedOriginal(ps) == File(Compose([k \in 1..Len(ps) |-> ps[k].original_sub]))

SavedTranslation(ps) == File(Compose([k \in 1..Len(ps) |-> ps[k].translated_sub]))

\* save() opening the translation file for appending
SaveWrites_append ==
    /\ statusFile' = SavedStatus(pairs)
    /\ origFile' = SavedOriginal(pairs)
    /\ transFile' = File((IF transFile.exists THEN transFile.content ELSE <<>>)
                            \o SavedTranslation(pairs).content)

\* the writes of save()
SaveWrites ==
    /\ statusFile' = SavedStatus(pairs)
    /\ origFile' = SavedOriginal(pairs)
    /\ transFile' = SavedTranslation(pairs)

\* the record of a save() call; a save() right after a save() is not
\* counted as an edit
Saved ==
    /\ saves > 0 \/ edits < MaxEdits
    /\ edits' = IF saves > 0 THEN edits ELSE edits + 1
    /\ saves' = IF saves < 2 THEN saves + 1 ELSE 2
    /\ replaced' = statusFile
    /\ failed' = "none"

\* the artifacts in the order save() writes them
SaveOrder == <<"status", "original", "translation">>

\* a file whose write raised: untouched if open() raised, cut short if
\* write() did
WriteRaised(f) == {f, Garbled}

\* save() rolling the status record back when a later write raises
SaveRaises_rollback(stage) ==
    /\ statusFile' \in (IF stage = "status" THEN WriteRaised(statusFile)
                        ELSE {statusFile})
    /\ origFile' \in (IF stage = "original" THEN WriteRaised(origFile)
                      ELSE IF stage = "translation" THEN {SavedOriginal(pairs)}
                      ELSE {origFile})
    /\ transFile' \in (IF stage = "translation" THEN WriteRaised(transFile)
                       ELSE {transFile})

\* the writes of a save() in which the write of artifact stage raises: the
\* earlier writes are done, the later ones never start
SaveRaises(stage) ==
    /\ statusFile' \in (IF stage = "status" THEN WriteRaised(statusFile)
                        ELSE {SavedStatus(pairs)})
    /\ origFile' \in (IF stage = "original" THEN WriteRaised(origFile)
                      ELSE IF stage = "translation" THEN {SavedOriginal(pairs)}
                      ELSE {origFile})
    /\ transFile' \in (IF stage = "translation" THEN WriteRaised(transFile)
                       ELSE {transFile})

\* the record of a save() call that raised at artifact stage; it is counted
\* as an edit
SaveFailed(stage) ==
    /\ faulty /\ edits < MaxEdits
    /\ edits' = edits + 1
    /\ saves' = 0
    /\ replaced' = NoFile
    /\ failed' = stage

\* save(): no write raises, or one does and the exception leaves save()
save ==
    /\ Engine
    /\ \/ /\ SaveWrites
          /\ Saved
          /\ lastOp' = Op("save", current_index, EmptyText, FALSE, FALSE)
          /\ IF hist \in {"loaded", "reloaded"}
             THEN hist' = "saved" /\ pairs0' = pairs
             ELSE hist' = "edited" /\ pairs0' = pairs0
       \/ \E k \in 1..Len(SaveOrder) :
              /\ SaveRaises(SaveOrder[k])
              /\ SaveFailed(SaveOrder[k])
              /\ lastOp' = Op("save", current_index, EmptyText, FALSE, TRUE)
              /\ hist' = "edited" /\ pairs0' = pairs0
    /\ window' = NoWindow
    /\ run' = -1
    /\ UNCHANGED <<mode, faulty, Widgets, Drafts, Media, pairs, current_index>>

\* ------------------------------------------------------------ tui.py
Tui == mode = "tui"

\* Acolyte.__init__ and on_mount: the manager is built and update_view
\* fills the empty text areas; the session starts from a work in progress,
\* the first entry translated and verified
InitTui ==
    /\ mode = "tui" /\ faulty = TRUE
    /\ origFile \in {File(O) : O \in SessionOrigFiles \ {<<>>}}
    /\ transFile = File(<<OrigEntry(1, TransText)>>)
    /\ statusFile = File([i \in {1} |-> TRUE])
    /\ pairs = LoadData(origFile, transFile, statusFile)
    /\ current_index = 0
    /\ window = NoWindow
    /\ otext = ViewTexts(pairs, 0).o
    /\ ttext = ViewTexts(pairs, 0).t
    /\ pending = ViewPosted(pairs, 0, EmptyText, EmptyText)
    /\ draft = NoDraft /\ clock = 0
    /\ lastOp = Op("on_mount", 0, EmptyText, FALSE, FALSE)
    /\ edits = 0
    /\ run = -1
    /\ pairs0 = pairs
    /\ hist = "edited"
    /\ saves = 0 /\ replaced = NoFile /\ failed = "none"
    /\ NoMedia

\* update_view() after the manager changed to pairs', current_index'
UpdateView ==
    /\ otext' = ViewTexts(pairs', current_index').o
    /\ ttext' = ViewTexts(pairs', current_index').t
    /\ pending' = pending \cup ViewPosted(pairs', current_index', otext, ttext)

\* the keys of the user are handled after the Changed messages posted
\* before them: the message queue is in order
Idle == pending = {}

TuiFrame == UNCHANGED <<mode, faulty, Drafts, Media, window, run, pairs0, hist>>

\* action_next_subtitle
action_next_subtitle ==
    /\ Tui /\ Idle
    /\ current_index' = NextIdx(pairs, current_index)
    /\ pairs' = pairs
    /\ UpdateView
    /\ NoSave
    /\ TuiFrame /\ UNCHANGED <<Files, lastOp, edits>>

\* action_prev_subtitle
action_prev_subtitle ==
    /\ Tui /\ Idle
    /\ current_index' = PreviousIdx(current_index)
    /\ pairs' = pairs
    /\ UpdateView
    /\ NoSave
    /\ TuiFrame /\ UNCHANGED <<Files, lastOp, edits>>

\* action_toggle_status
action_toggle_status ==
    /\ Tui /\ Idle /\ edits < MaxEdits
    /\ pairs' = ToggleStatus(pairs, current_index)
    /\ current_index' = current_index
    /\ UpdateView
    /\ lastOp' = Op("action_toggle_status", current_index, EmptyText, CurStatus, FALSE)
    /\ edits' = edits + 1
    /\ NoSave
    /\ TuiFrame /\ UNCHANGED Files

\* the user edits the text of one of the two editable text areas
type_text(w, t) ==
    /\ Tui /\ Idle /\ edits < MaxEdits
    /\ IF w = CurrOrig
       THEN t # otext /\ otext' = t /\ ttext' = ttext
       ELSE t # ttext /\ ttext' = t /\ otext' = otext
    /\ pending' = pending \cup {w}
    /\ lastOp' = Op(IF w = CurrOrig THEN "type_original" ELSE "type_translation",
                    current_index, t, CurStatus, FALSE)
    /\ edits' = edits + 1
    /\ NoSave
    /\ TuiFrame /\ UNCHANGED <<Files, pairs, current_index>>

\* on_text_area_changed(event) for a pending Changed message of area w
on_text_area_changed(w) ==
    /\ Tui /\ w \in pending
    /\ pending' = pending \ {w}
    /\ IF w = CurrTrans
       THEN /\ pairs' = ChangedTranslation(pairs, current_index, ttext)
            /\ lastOp' = Op("changed_translation", current_index, ttext, CurStatus, FALSE)
       ELSE /\ pairs' = SetOriginal(pairs, current_index, otext)
            /\ lastOp' = Op("changed_original", current_index, otext, CurStatus, FALSE)
    /\ NoSave
    /\ TuiFrame /\ UNCHANGED <<Files, current_index, otext, ttext, edits>>

\* action_save: manager.save(), and a notification of its outcome
action_save ==
    /\ Tui /\ Idle
    /\ \/ /\ SaveWrites
          /\ Saved
          /\ lastOp' = Op("action_save", current_index, EmptyText, FALSE, FALSE)
       \/ \E k \in 1..Len(SaveOrder) :
              /\ SaveRaises(SaveOrder[k])
              /\ SaveFailed(SaveOrder[k])
              /\ lastOp' = Op("action_save", current_index, EmptyText, FALSE, TRUE)
    /\ TuiFrame /\ UNCHANGED <<pairs, current_index, Widgets>>

\* ----------------------------------------------------------- logic.py
Draft == mode = "draft"

\* an srt file and no draft document yet
InitDraft ==
    /\ mode = "draft" /\ faulty = FALSE
    /\ origFile \in {File(O) : O \in DraftSrtFiles}
    /\ transFile = NoFile /\ statusFile = NoFile
    /\ pairs = <<>> /\ current_index = 0 /\ window = NoWindow
    /\ otext = EmptyText /\ ttext = EmptyText /\ pending = {}
    /\ draft = NoDraft /\ clock = 0
    /\ lastOp = Op("none", 0, EmptyText, FALSE, FALSE)
    /\ edits = 0
    /\ run = -1
    /\ pairs0 = <<>>
    /\ hist = "edited"
    /\ saves = 0 /\ replaced = NoFile /\ failed = "none"
    /\ NoMedia

DraftFrame ==
    UNCHANGED <<mode, faulty, Files, Widgets, pairs, current_index, window, run,
                pairs0, hist, saves, replaced, failed>>

\* the status of entry k of the draft as a boolean
EntryVerified(k) == k > 0 /\ draft.content.subtitles[k].status = Verified

\* load creating the draft whether or not one exists
load_overwrite ==
    /\ Draft
    /\ draft' = SaveDraftData(CreateDraft(origFile.content, clock + 1), clock + 2)
    /\ clock' = clock + 2
    /\ lastOp' = Op("load", 0, EmptyText, FALSE, FALSE)
    /\ DraftFrame /\ UNCHANGED <<edits, Media>>

\* load(srt_file)
load ==
    /\ Draft
    /\ IF draft.exists
       THEN UNCHANGED Drafts
       ELSE /\ draft' = SaveDraftData(CreateDraft(origFile.content, clock + 1), clock + 2)
            /\ clock' = clock + 2
    /\ lastOp' = Op("load", 0, EmptyText, FALSE, FALSE)
    /\ DraftFrame /\ UNCHANGED <<edits, Media>>

\* the positions of the entries of the draft
Positions == 1..Len(draft.content.subtitles)

\* a command on the entry of an index: the entry is looked up, the document
\* changed at its position (changed[k]) is saved; no such entry is an error
EntryCommand(name, index, text, changed) ==
    /\ Draft /\ edits < MaxEdits /\ draft.exists
    /\ LET k == FindEntryByIndex(draft.content.subtitles, index)
       IN IF k = 0
          THEN /\ lastOp' = Op(name, index, text, FALSE, TRUE)
               /\ UNCHANGED Drafts
          ELSE /\ lastOp' = Op(name, index, text, EntryVerified(k), FALSE)
               /\ draft' = SaveDraftData(changed[k], clock + 1)
               /\ clock' = clock + 1
    /\ edits' = edits + 1
    /\ DraftFrame /\ UNCHANGED Media

\* translate(draft_file, index, text)
translate(index, text) ==
    EntryCommand("translate", index, text,
                 [k \in Positions |-> TranslateEntry(draft.content, k, text)])

\* fix(draft_file, index, text)
fix(index, text) ==
    EntryCommand("fix", index, text,
                 [k \in Positions |-> FixEntry(draft.content, k, text)])

\* status_toggle(draft_file, index)
status_toggle(index) ==
    EntryCommand("status_toggle", index, EmptyText,
                 [k \in Positions |-> ToggleEntry(draft.content, k)])

\* config(draft_file, lang_orig, lang_target, audio_file); audio_file is
\* an existing file (typer checks it)
config(lang_orig, lang_target, audio_file) ==
    /\ Draft /\ edits < MaxEdits /\ draft.exists
    /\ IF lang_orig = None /\ lang_target = None /\ audio_file = None
       THEN /\ lastOp' = Op("config", 0, EmptyText, FALSE, TRUE)
            /\ UNCHANGED Drafts
       ELSE /\ lastOp' = Op("config", 0, EmptyText, FALSE, FALSE)
            /\ draft' = SaveDraftData(
                    ConfigData(draft.content, lang_orig, lang_target, audio_file),
                    clock + 1)
            /\ clock' = clock + 1
    /\ edits' = edits + 1
    /\ DraftFrame /\ UNCHANGED Media

\* export: the two paths
OutOrigPath ==
    ExportPath(DraftName, ExportLang(draft.content.metadata.original_lang, "original"))

OutTargetPath ==
    ExportPath(DraftName, ExportLang(draft.content.metadata.target_lang, "target"))

\* export: the two files are written in turn; the first or the second
\* write may fail, what was written stays
ExportWrites ==
    LET first == Write(outFiles, OutOrigPath, ExportContent(draft.content, "original"))
        second == Write(first, OutTargetPath, ExportContent(draft.content, "translation"))
    IN \/ /\ outFiles' = second
          /\ lastOp' = Op("export", 0, EmptyText, FALSE, FALSE)
       \/ /\ outFiles' \in {outFiles, first}
          /\ lastOp' = Op("export", 0, EmptyText, FALSE, TRUE)

\* export saving the draft it loaded
export_saving ==
    /\ Draft /\ edits < MaxEdits /\ draft.exists
    /\ ExportWrites
    /\ draft' = SaveDraftData(draft.content, clock + 1)
    /\ clock' = clock + 1
    /\ edits' = edits + 1
    /\ DraftFrame /\ UNCHANGED <<clips, clipOf, played>>

\* export(draft_file)
export ==
    /\ Draft /\ edits < MaxEdits /\ draft.exists
    /\ ExportWrites
    /\ edits' = edits + 1
    /\ DraftFrame /\ UNCHANGED <<Drafts, clips, clipOf, played>>

\* play naming the clip by a number not yet used in the cache directory
ClipPath_fresh(name, index) ==
    [base_name |-> RemoveSuffix(name, <<".srt", ".draft.json">>),
     index |-> index + MaxIdx * Cardinality(clips)]

\* play: temp_clip_path = <tmp>/acolyte/<base_name>_clip_<index>.mp3
ClipPath(name, index) ==
    [base_name |-> RemoveSuffix(name, <<".srt", ".draft.json">>), index |-> index]

\* what play prints
Played(path, cache, ran) == [clip_path |-> path, cache |-> cache, ran |-> ran]

\* the draft_file argument: a directory and a file name
DraftFile(parent) == [parent |-> parent, name |-> DraftName]

\* the directory of the draft the commands work on, and another directory
\* that holds a draft file of the same name
WorkDir == "work"

OtherDir == "other"

\* the document of the draft file in OtherDir: made from a copy of the srt
\* file, with an audio file of its own
OtherDraft ==
    File([CreateDraft(origFile.content, 0) EXCEPT
             !.metadata.audio_file = Some("other.mp3")])

\* the commands that are play
PlayOps == {"play", "play_other"}

\* the clip files after ffmpeg wrote temp_clip_path for a play of index on
\* draft_file
Cut(temp_clip_path, draft_file, index) ==
    /\ clips' = clips \cup {temp_clip_path}
    /\ clipOf' = (temp_clip_path :> [draft_file |-> draft_file, index |-> index])
                     @@ clipOf

\* a play of index right after a play of the same index
Replay(index) == lastOp.op \in PlayOps /\ lastOp.index = index

\* play(draft_file, index) on the document doc of draft_file: the checks,
\* the cached clip, else ffmpeg, which writes the clip, or fails and leaves
\* no file or a partial one
PlayOn(name, draft_file, doc, index) ==
    /\ Draft /\ draft.exists /\ doc.exists
    /\ LET audio_file_path == doc.content.metadata.audio_file
           entry == FindEntryByIndex(doc.content.subtitles, index)
           temp_clip_path == ClipPath(draft_file.name, index)
       IN IF audio_file_path = None \/ entry = 0
          THEN /\ lastOp' = Op(name, index, EmptyText, FALSE, TRUE)
               /\ played' = NoPlay
               /\ UNCHANGED <<clips, clipOf>>
          ELSE IF temp_clip_path \in clips
          THEN /\ lastOp' = Op(name, index, EmptyText, FALSE, FALSE)
               /\ played' = Played(Some(temp_clip_path), "hit", FALSE)
               /\ UNCHANGED <<clips, clipOf>>
          ELSE \/ /\ lastOp' = Op(name, index, EmptyText, FALSE, FALSE)
                  /\ played' = Played(Some(temp_clip_path), "miss", TRUE)
                  /\ Cut(temp_clip_path, draft_file, index)
               \/ /\ lastOp' = Op(name, index, EmptyText, FALSE, TRUE)
                  /\ played' = Played(None, "none", TRUE)
                  /\ \/ UNCHANGED <<clips, clipOf>>
                     \/ Cut(temp_clip_path, draft_file, index)
    /\ DraftFrame /\ UNCHANGED <<Drafts, outFiles>>

\* play on the draft the commands work on; a play right after a play of the
\* same index is not counted as an edit
play(index) ==
    /\ Replay(index) \/ edits < MaxEdits
    /\ edits' = IF Replay(index) THEN edits ELSE edits + 1
    /\ PlayOn("play", DraftFile(WorkDir), draft, index)

\* play on the draft file of the same name in OtherDir, asked right after a
\* play of the same index
play_other(index) ==
    /\ Replay(index)
    /\ edits' = edits
    /\ PlayOn("play_other", DraftFile(OtherDir), OtherDraft, index)

\* ------------------------------------------------------ specifications
Init == InitEngine \/ InitTui \/ InitDraft

\* the calls on the manager
EngineNext ==
    \/ get_view_window
    \/ next_idx
    \/ previous_idx
    \/ \E t \in EditTexts : update_current_original(t)
    \/ \E t \in EditTexts : update_current_translation(t)
    \/ validate_current_translation
    \/ save

\* the handlers of the TUI
TuiNext ==
    \/ action_next_subtitle
    \/ action_prev_subtitle
    \/ action_toggle_status
    \/ \E w \in {CurrOrig, CurrTrans}, t \in EditTexts : type_text(w, t)
    \/ \E w \in {CurrOrig, CurrTrans} : on_text_area_changed(w)
    \/ action_save

\* the draft commands
DraftNext ==
    \/ load
    \/ \E i \in Indices, t \in EditTexts : translate(i, t)
    \/ \E i \in Indices, t \in EditTexts : fix(i, t)
    \/ \E i \in Indices : status_toggle(i)
    \/ \E lo \in Option(OrigCodes), lt \in Option(TargetCodes),
          af \in Option({AudioPath}) : config(lo, lt, af)
    \/ \E i \in Indices : play(i)
    \/ \E i \in Indices : play_other(i)
    \/ export

Next == EngineNext \/ TuiNext \/ DraftNext

Spec == Init /\ [][Next]_vars

\* the manager alone, and the draft commands alone
EngineSpec == InitEngine /\ [][EngineNext]_vars

DraftSpec == InitDraft /\ [][DraftNext]_vars

\* the manager alone or under the TUI, in a directory where writes may raise
SessionSpec == (InitEngine \/ InitTui) /\ [][EngineNext \/ TuiNext]_vars

\* the merge and the save round trip, over every original, translation and
\* status file of the bounds
InitLoad ==
    /\ origFile \in {File(O) : O \in OrigFiles} \cup {NoFile, Garbled}
    /\ transFile \in TransFiles \cup {Garbled}
    /\ statusFile \in StatusFiles \cup MalformedStatusFiles
    /\ faulty = FALSE
    /\ Constructed

NextLoad == Construct \/ save

LoadSpec == InitLoad /\ [][NextLoad]_vars

\* ------------------------------------------------------------ claims
\* the indices of the entries of a subtitle file
IndicesOf(f) == {f.content[k].index : k \in 1..Len(f.content)}

JustConstructed == lastOp.op = "__init__" /\ ~lastOp.raised

\* C1: after construction there is one pair per original entry, the k-th pair
\* carrying the index of the k-th original entry; no pair comes from a
\* translation entry whose index the original file lacks.
C1_MergeCompleteness ==
    JustConstructed =>
        /\ Len(pairs) = Len(origFile.content)
        /\ \A k \in 1..Len(pairs) : pairs[k].index = origFile.content[k].index

\* two originals out of index order, and a translation entry that is an orphan
C1_Witness ==
    /\ JustConstructed
    /\ Len(pairs) = 2
    /\ pairs[1].index > pairs[2].index
    /\ transFile.exists
    /\ IndicesOf(transFile) \ IndicesOf(origFile) # {}

\* C2: a fresh engine built from the files written by save() with no edits
\* has the same pairs, in every field, as the engine that saved.
C2_SaveRoundTrip == hist = "reloaded" => pairs = pairs0

\* C3: on a non-empty pair sequence the cursor stays within 0..N-1 under any
\* navigation; retreating at 0 and advancing at N-1 leave it where it is, and
\* k successive advances from 0 leave it at min(k, N-1), so N+5 of them at N-1.
C3_CursorInRange ==
    Len(pairs) > 0 =>
        /\ 0 <= current_index /\ current_index < Len(pairs)
        /\ run >= 0 =>
              current_index = IF run < Len(pairs) - 1 THEN run ELSE Len(pairs) - 1

C3_Clamped ==
    /\ ((previous_idx \/ action_prev_subtitle) /\ current_index = 0)
            => current_index' = 0
    /\ ((next_idx \/ action_next_subtitle) /\ Len(pairs) > 0
            /\ current_index = Len(pairs) - 1)
            => current_index' = Len(pairs) - 1

C3_CursorInvariant == []C3_CursorInRange /\ [][C3_Clamped]_vars

\* N+5 successive advances from 0 on N = 2 pairs
C3_Witness ==
    /\ Len(pairs) = 2
    /\ run >= Len(pairs) + 5
    /\ current_index = Len(pairs) - 1

\* C4: update_current_translation(text) stores the text in the pair under the
\* cursor and leaves it verified exactly when the text is non-empty after
\* stripping.
C4_TranslationDerivesStatus ==
    (lastOp.op = "update_current_translation" /\ ~lastOp.raised) =>
        /\ pairs[lastOp.index + 1].translated_sub.content = lastOp.text
        /\ pairs[lastOp.index + 1].is_approved = (Strip(lastOp.text) # <<>>)

\* the statuses of a pair sequence are those of another but for position k
StatusesButAt(ps, qs, k) ==
    /\ Len(ps) = Len(qs)
    /\ \A j \in 1..Len(ps) : j # k => ps[j].is_approved = qs[j].is_approved

\* entry k of a draft document carries that index and the documents differ
\* in the status of entry k at most
DraftsButStatusAt(d, e, k, index) ==
    /\ k \in 1..Len(d.subtitles)
    /\ d.subtitles[k].index = index
    /\ e = [d EXCEPT !.subtitles[k].status = e.subtitles[k].status,
                     !.metadata.updated_at = e.metadata.updated_at]

\* C5: a status toggle inverts the status of the targeted pair whatever its
\* text and changes no other pair's status; a second toggle of the same target
\* right after the first restores the status the first one found (TUI and
\* draft).
C5_ToggleStep ==
    /\ action_toggle_status =>
          /\ pairs'[current_index + 1].is_approved = ~pairs[current_index + 1].is_approved
          /\ StatusesButAt(pairs, pairs', current_index + 1)
          /\ (lastOp.op = "action_toggle_status" /\ lastOp.index = current_index) =>
                pairs'[current_index + 1].is_approved = lastOp.before
    /\ \A i \in Indices :
          (status_toggle(i) /\ ~lastOp'.raised) =>
              \E k \in 1..Len(draft.content.subtitles) :
                /\ DraftsButStatusAt(draft.content, draft'.content, k, i)
                /\ draft'.content.subtitles[k].status \in {Verified, Unverified}
                /\ (draft'.content.subtitles[k].status = Verified)
                      = ~(draft.content.subtitles[k].status = Verified)
                /\ (lastOp.op = "status_toggle" /\ ~lastOp.raised /\ lastOp.index = i) =>
                      (draft'.content.subtitles[k].status = Verified) = lastOp.before

C5_ToggleInverts == [][C5_ToggleStep]_vars

\* a toggle that verified a pair with an empty translation, another pair
\* beside it
C5_Witness ==
    /\ lastOp.op = "action_toggle_status"
    /\ ~lastOp.before
    /\ Len(pairs) = 2
    /\ pairs[lastOp.index + 1].translated_sub.content = EmptyText
    /\ pairs[lastOp.index + 1].is_approved

\* the status record maps that index to true
RecordedTrue(index) ==
    /\ statusFile.exists
    /\ index \in DOMAIN statusFile.content
    /\ statusFile.content[index]

\* C6: after construction a pair is verified exactly when the status record
\* maps its index to true; an index the record lacks is unverified.
C6_StatusCarryOver ==
    JustConstructed =>
        \A k \in 1..Len(pairs) : pairs[k].is_approved = RecordedTrue(pairs[k].index)

\* two pairs, the record naming only the second as verified
C6_Witness ==
    /\ JustConstructed
    /\ Len(pairs) = 2
    /\ statusFile.exists
    /\ DOMAIN statusFile.content = {pairs[2].index}
    /\ pairs[2].is_approved
    /\ ~pairs[1].is_approved

\* the translation file has an entry of that index
Translated(index) == transFile.exists /\ index \in IndicesOf(transFile)

\* C7: after construction a pair whose index has no translation entry has an
\* empty translated text, a translation with the original entry's start and
\* end, and is unverified unless the status record says otherwise.
C7_MissingTranslationDefault ==
    JustConstructed =>
        \A k \in 1..Len(pairs) :
            ~Translated(pairs[k].index) =>
                /\ pairs[k].translated_sub.content = EmptyText
                /\ pairs[k].translated_sub.index = origFile.content[k].index
                /\ pairs[k].translated_sub.start = origFile.content[k].start
                /\ pairs[k].translated_sub.end = origFile.content[k].end
                /\ (~statusFile.exists \/ pairs[k].index \notin DOMAIN statusFile.content)
                      => ~pairs[k].is_approved

\* a partial translation: one pair translated, the other not and unrecorded
C7_Witness ==
    /\ JustConstructed
    /\ Len(pairs) = 2
    /\ Translated(pairs[1].index)
    /\ ~Translated(pairs[2].index)
    /\ statusFile.exists
    /\ pairs[2].index \notin DOMAIN statusFile.content
    /\ pairs[2].translated_sub.content = EmptyText

\* C8: get_view_window returns the pair under the cursor, the pair before it
\* (none exactly at the first position) and the pair after it (none exactly at
\* the last position), and changes neither the cursor nor the pairs.
C8_WindowValue ==
    window # NoWindow =>
        /\ window[2] = <<pairs[current_index + 1]>>
        /\ (window[1] = <<>>) = (current_index = 0)
        /\ current_index > 0 => window[1] = <<pairs[current_index]>>
        /\ (window[3] = <<>>) = (current_index = Len(pairs) - 1)
        /\ current_index < Len(pairs) - 1 => window[3] = <<pairs[current_index + 2]>>

C8_WindowReadOnly ==
    get_view_window => pairs' = pairs /\ current_index' = current_index

C8_Window == []C8_WindowValue /\ [][C8_WindowReadOnly]_vars

\* the window at the last of two pairs: a previous pair and no next pair
C8_Witness ==
    /\ window # NoWindow
    /\ Len(pairs) = 2
    /\ current_index = 1
    /\ window[1] # <<>>
    /\ window[3] = <<>>

\* C9: update_current_original changes only the original text of the pair
\* under the cursor, update_current_translation only its translated text and
\* status; every other field and pair and the cursor are unchanged, and the
\* next get_view_window at that pair returns the new text.
C9_EditStep ==
    /\ \A t \in EditTexts :
          (update_current_original(t) /\ ~lastOp'.raised) =>
              /\ current_index' = current_index
              /\ pairs' = [pairs EXCEPT ![current_index + 1].original_sub.content = t]
    /\ \A t \in EditTexts :
          (update_current_translation(t) /\ ~lastOp'.raised) =>
              /\ current_index' = current_index
              /\ pairs' = [pairs EXCEPT
                    ![current_index + 1].translated_sub.content = t,
                    ![current_index + 1].is_approved = pairs'[current_index + 1].is_approved]
    /\ (get_view_window /\ ~lastOp.raised /\ lastOp.index = current_index) =>
          /\ lastOp.op = "update_current_original" =>
                window'[2][1].original_sub.content = lastOp.text
          /\ lastOp.op = "update_current_translation" =>
                window'[2][1].translated_sub.content = lastOp.text

C9_MutationLocality == [][C9_EditStep]_vars

\* the window read after an edit of the original text of the second of two
\* pairs, the first pair still as loaded
C9_Witness ==
    /\ window # NoWindow
    /\ lastOp.op = "update_current_original" /\ ~lastOp.raised
    /\ lastOp.index = 1 /\ current_index = 1
    /\ Len(pairs) = 2
    /\ edits = 1
    /\ window[2][1].original_sub.content = <<"x">>
    /\ pairs[1] = pairs0[1]

\* C10: translate on an index the draft contains changes only the translation
\* and status of that entry and metadata.updated_at.
C10_TranslateStep ==
    \A i \in Indices, t \in EditTexts :
        (translate(i, t) /\ ~lastOp'.raised) =>
            \E k \in 1..Len(draft.content.subtitles) :
                /\ draft.content.subtitles[k].index = i
                /\ draft'.exists
                /\ draft'.content.subtitles[k].translation = t
                /\ draft'.content =
                      [draft.content EXCEPT
                          !.subtitles[k].translation = draft'.content.subtitles[k].translation,
                          !.subtitles[k].status = draft'.content.subtitles[k].status,
                          !.metadata.updated_at = draft'.content.metadata.updated_at]

C10_DraftMutationIsolation == [][C10_TranslateStep]_vars

\* a translation of the second of two entries, stamped after the creation
C10_Witness ==
    /\ lastOp.op = "translate" /\ ~lastOp.raised
    /\ Len(draft.content.subtitles) = 2
    /\ draft.content.subtitles[2].translation = <<"x">>
    /\ draft.content.subtitles[1].translation = EmptyText
    /\ draft.content.metadata.updated_at > draft.content.metadata.created_at

\* the draft has an entry of that index
HasEntry(index) ==
    \E k \in 1..Len(draft.content.subtitles) : draft.content.subtitles[k].index = index

\* C11: translate, fix, status_toggle or play with an index no entry of the
\* draft carries ends with an error and leaves the draft document unchanged,
\* updated_at included.
C11_NotFoundStep ==
    \A i \in Indices :
        (/\ ~HasEntry(i)
         /\ \/ \E t \in EditTexts : translate(i, t) \/ fix(i, t)
            \/ status_toggle(i)
            \/ play(i))
        => (lastOp'.raised /\ lastOp'.index = i /\ draft' = draft)

C11_EntryNotFound == [][C11_NotFoundStep]_vars

\* play, with the audio file configured, of an index that a draft of one
\* entry lacks
C11_Witness ==
    /\ lastOp.op = "play" /\ lastOp.raised
    /\ draft.exists
    /\ draft.content.metadata.audio_file # None
    /\ Len(draft.content.subtitles) = 1
    /\ ~HasEntry(lastOp.index)

\* the indices of a pair sequence
PairIndices(ps) == {ps[k].index : k \in 1..Len(ps)}

\* C12: save() writes a status record whose keys are exactly the indices of
\* the current pairs, each mapped to the status of its pair; an index of the
\* record it replaces that no pair carries is not in it (a save() that
\* returns: one whose write raises is C22's case).
C12_SaveStatusKeys ==
    (lastOp.op = "save" /\ ~lastOp.raised) =>
        /\ statusFile.exists
        /\ DOMAIN statusFile.content = PairIndices(pairs)
        /\ \A k \in 1..Len(pairs) :
              statusFile.content[pairs[k].index] = pairs[k].is_approved

\* a save that replaced a record holding an index no pair carries
C12_Witness ==
    /\ lastOp.op = "save" /\ ~lastOp.raised
    /\ Len(pairs) > 0
    /\ replaced.exists
    /\ DOMAIN replaced.content \ PairIndices(pairs) # {}
    /\ \E k \in 1..Len(pairs) : pairs[k].is_approved

\* C13: a save() right after a save() leaves the status file, the original
\* file and the translation file as the first one wrote them, and the pairs
\* unchanged (both calls return: a save() whose write raises is C22's case).
C13_SecondSave ==
    (save /\ saves >= 1 /\ ~lastOp'.raised) =>
        /\ statusFile' = statusFile
        /\ origFile' = origFile
        /\ transFile' = transFile
        /\ pairs' = pairs

C13_SaveIdempotent == [][C13_SecondSave]_vars

\* two saves in a row after an edit of one of two pairs
C13_Witness ==
    /\ lastOp.op = "save" /\ ~lastOp.raised
    /\ saves = 2
    /\ Len(pairs) = 2
    /\ pairs # pairs0
    /\ transFile.exists

\* the file exists and reads well
Reads(f) == f.exists /\ f.form = "ok"

\* C14: constructing the manager from an original file with zero entries
\* fails, so that no manager has an empty pair sequence.
C14_EmptySourceIsError ==
    /\ (lastOp.op = "__init__" /\ Reads(origFile) /\ origFile.content = <<>>)
          => lastOp.raised
    /\ Engine => Len(pairs) > 0

\* C15: with a translation file that is missing, unreadable or unparseable
\* the construction succeeds and every pair has an empty translated text;
\* with a missing status file it succeeds and every pair is unverified.
C15_OptionalSourcesNonFatal ==
    (lastOp.op = "__init__" /\ Reads(origFile)) =>
        /\ ((~transFile.exists \/ transFile.form # "ok")
                /\ (~statusFile.exists \/ statusFile.form = "ok")) =>
              /\ ~lastOp.raised
              /\ Len(pairs) = Len(origFile.content)
              /\ \A k \in 1..Len(pairs) : pairs[k].translated_sub.content = EmptyText
        /\ ~statusFile.exists =>
              /\ ~lastOp.raised
              /\ Len(pairs) = Len(origFile.content)
              /\ \A k \in 1..Len(pairs) : ~pairs[k].is_approved

\* C16: with an original file that is unreadable or unparseable, or a status
\* file that exists and is structurally invalid, the construction raises and
\* there is no manager and no pair.
C16_FatalConstructionFailures ==
    (/\ lastOp.op = "__init__"
     /\ \/ ~Reads(origFile)
        \/ statusFile.exists /\ statusFile.form # "ok")
    => (lastOp.raised /\ ~Engine /\ pairs = <<>>)

\* C17: export leaves the draft document as it was, updated_at included,
\* whether it succeeds or fails.
C17_ExportStep == export => draft' = draft

C17_ExportDoesNotMutate == [][C17_ExportStep]_vars

\* a successful export of a draft with a translated entry
C17_Witness ==
    /\ lastOp.op = "export" /\ ~lastOp.raised
    /\ Len(draft.content.subtitles) = 2
    /\ \E k \in 1..2 : draft.content.subtitles[k].translation = <<"x">>
    /\ OutTargetPath \in DOMAIN outFiles

\* C18: after a successful export the file named from original_lang holds
\* the original texts and the file named from target_lang the translations,
\* "unknown" replaced by original and target; the two are separate files.
C18_ExportNaming ==
    (lastOp.op = "export" /\ ~lastOp.raised) =>
        LET orig_name == [base_name |-> <<"movie">>,
                          lang |-> IF draft.content.metadata.original_lang = Unknown
                                   THEN "original"
                                   ELSE draft.content.metadata.original_lang]
            target_name == [base_name |-> <<"movie">>,
                            lang |-> IF draft.content.metadata.target_lang = Unknown
                                     THEN "target"
                                     ELSE draft.content.metadata.target_lang]
        IN /\ orig_name \in DOMAIN outFiles
           /\ target_name \in DOMAIN outFiles
           /\ orig_name # target_name
           /\ outFiles[orig_name] = ExportContent(draft.content, "original")
           /\ outFiles[target_name] = ExportContent(draft.content, "translation")

\* the second of two successive play calls for the index i of an entry, the
\* audio file configured
SecondPlay(i) ==
    /\ play(i)
    /\ lastOp.op = "play" /\ lastOp.index = i
    /\ draft.content.metadata.audio_file # None
    /\ HasEntry(i)

\* C19 as stated: two successive play calls for the same index return the
\* same clip path and ffmpeg runs at most once across the two.
C19_TwoPlaysStep ==
    \A i \in Indices :
        SecondPlay(i) =>
            /\ played.clip_path # None
            /\ played'.clip_path = played.clip_path
            /\ ~(played.ran /\ played'.ran)

C19_SecondPlayHits ==
    \A i \in Indices :
        (SecondPlay(i) /\ ~lastOp.raised) =>
            /\ ~lastOp'.raised
            /\ played.clip_path # None
            /\ played'.clip_path = played.clip_path
            /\ played'.cache = "hit"
            /\ ~played'.ran
            /\ clips' = clips

C20_LoadStep ==
    load =>
        IF draft.exists
        THEN draft' = draft
        ELSE /\ draft'.exists
             /\ Len(draft'.content.subtitles) = Len(origFile.content)
             /\ \A k \in 1..Len(origFile.content) :
                   /\ draft'.content.subtitles[k].index = origFile.content[k].index
                   /\ draft'.content.subtitles[k].original = origFile.content[k].content
                   /\ draft'.content.subtitles[k].translation = EmptyText
                   /\ draft'.content.subtitles[k].status = Unverified

C20_LoadKeepsDraft == [][C20_LoadStep]_vars

\* a load after a translation: the translation, its status and its stamp
\* are there
C20_Witness ==
    /\ lastOp.op = "load"
    /\ Len(draft.content.subtitles) = 2
    /\ draft.content.subtitles[2].translation = <<"x">>
    /\ draft.content.subtitles[2].status = Verified
    /\ draft.content.metadata.updated_at > 2

\* C21: the translation entry save() writes for a pair carries the pair's
\* start and end, those of the original entry, whatever the timing the
\* translation file gave it.
C21_OriginalTimingAuthoritative ==
    (lastOp.op = "save" /\ ~lastOp.raised) =>
        \A k \in 1..Len(pairs) :
            Strip(pairs[k].translated_sub.content) # <<>> =>
                \E j \in 1..Len(transFile.content) :
                    /\ transFile.content[j].content = pairs[k].translated_sub.content
                    /\ transFile.content[j].start = pairs[k].start
                    /\ transFile.content[j].end = pairs[k].end

\* the place of artifact stage in SaveOrder, and the artifacts written
\* before it and after it
Place(stage) == CHOOSE k \in 1..Len(SaveOrder) : SaveOrder[k] = stage

Before(stage) == {SaveOrder[j] : j \in 1..(Place(stage) - 1)}

After(stage) == {SaveOrder[j] : j \in (Place(stage) + 1)..Len(SaveOrder)}

\* C22: save() writes the status record, then the original file, then the
\* translation file; when the write of one of them raises, the artifacts
\* before it hold their new content, the artifacts after it hold the content
\* they had before the call, the call is reported as failed, and pairs and
\* current_index are as before the call.
C22_FailedSaveStep ==
    ((save \/ action_save) /\ failed' # "none") =>
        /\ lastOp'.raised
        /\ pairs' = pairs /\ current_index' = current_index
        /\ ("status" \in Before(failed')) => statusFile' = SavedStatus(pairs)
        /\ ("original" \in Before(failed')) => origFile' = SavedOriginal(pairs)
        /\ ("original" \in After(failed')) => origFile' = origFile
        /\ ("translation" \in After(failed')) => transFile' = transFile

C22_SaveBestEffort ==
    /\ [](failed # "none" => lastOp.raised /\ lastOp.op \in {"save", "action_save"})
    /\ [][C22_FailedSaveStep]_vars

\* a save() of edited pairs that raised writing the original file: the new
\* status record is on disk beside the translation file of before
C22_Witness ==
    /\ lastOp.op = "save" /\ lastOp.raised
    /\ failed = "original"
    /\ Len(pairs) = 2
    /\ pairs # pairs0
    /\ statusFile = SavedStatus(pairs)
    /\ transFile # SavedTranslation(pairs)

\* the draft file the last play was asked for
PlayedFile == DraftFile(IF lastOp.op = "play" THEN WorkDir ELSE OtherDir)

\* C23: a play of index i of a draft file that is answered from the cache
\* returns a clip that was cut for index i of that same draft file, never
\* one cut for another draft file or another index.
C23_ClipCacheIsolation ==
    (lastOp.op \in PlayOps /\ played.cache = "hit") =>
        /\ clipOf[played.clip_path[1]].draft_file = PlayedFile
        /\ clipOf[played.clip_path[1]].index = lastOp.index

\* the text areas hold the texts of the current pair: a pending Changed
\* message is one the view raised loading them, not one of typing
Shown ==
    /\ otext = ViewTexts(pairs, current_index).o
    /\ ttext = ViewTexts(pairs, current_index).t

\* C24: next_idx, previous_idx, the two actions of the TUI that wrap them,
\* and the handling of the Changed message the view raises when it loads the
\* newly current pair's text, leave every pair as it was: texts, status and
\* timing.
C24_NavigationStep ==
    /\ (next_idx \/ previous_idx \/ action_next_subtitle \/ action_prev_subtitle)
           => pairs' = pairs
    /\ \A w \in {CurrOrig, CurrTrans} :
           (on_text_area_changed(w) /\ Shown) => pairs' = pairs

C24_NavigationOnlyMovesCursor == [][C24_NavigationStep]_vars

\* C25: fix on an index the draft contains sets that entry's original to the
\* text and its status to "unverified", stamps metadata.updated_at, and
\* changes nothing else of the document.
C25_FixStep ==
    \A i \in Indices, t \in EditTexts :
        (fix(i, t) /\ ~lastOp'.raised) =>
            \E k \in 1..Len(draft.content.subtitles) :
                /\ draft.content.subtitles[k].index = i
                /\ draft'.exists
                /\ draft'.content =
                      [draft.content EXCEPT
                          !.subtitles[k].original = t,
                          !.subtitles[k].status = Unverified,
                          !.metadata.updated_at = clock']
                /\ clock' > clock

\* C25: every entry of a draft that load created, after any translate, fix
\* and status_toggle calls, has the status "verified" or "unverified".
C25_StatusDomain ==
    draft.exists =>
        \A k \in 1..Len(draft.content.subtitles) :
            draft.content.subtitles[k].status \in {Verified, Unverified}

C25_FixResetsStatus == []C25_StatusDomain /\ [][C25_FixStep]_vars

\* a fix of the text of an entry that was translated and verified
C25_Witness ==
    /\ lastOp.op = "fix" /\ ~lastOp.raised
    /\ lastOp.before
    /\ lastOp.text = <<"x">>
    /\ Len(draft.content.subtitles) = 2
    /\ \E k \in 1..2 :
          /\ draft.content.subtitles[k].index = lastOp.index
          /\ draft.content.subtitles[k].original = <<"x">>
          /\ draft.content.subtitles[k].status = Unverified
          /\ draft.content.subtitles[k].translation # EmptyText

====
